---- MODULE Spec2Model ----
(***************************************************************************)
(* A model of the data-processing fixture (tests/fixtures/sample.py) and   *)
(* of fibonacci.py.                                                        *)
(*                                                                         *)
(* Text is a sequence of symbols.  A symbol is one character: the comma,   *)
(* the space, the line feed, a decimal digit, an ASCII letter, "+", "-",   *)
(* "." or "_"; or one of the two words main() looks up ("amount",          *)
(* "category"), which stand for themselves as an unbroken run of letters   *)
(* that is no part of a number.  A float is an IEEE 754 double, held as    *)
(* sign, odd mantissa and binary exponent, or an infinity, or NaN.         *)
(***************************************************************************)
EXTENDS Integers, Sequences, FiniteSets

VARIABLES
    \* ---- the command line run: main() and read_data_file()
    hasArg,     \* len(sys.argv) >= 2
    fs,         \* what the path resolves to: "ok", "missing", "denied" (open fails),
                \* "readfail" (readlines fails), "closefail" (the close on leaving
                \* the with block fails)
    content,    \* the file's text
    pc,         \* position in main() / read_data_file()
    lines,      \* f.readlines()
    headers,    \* the header tokens
    idx,        \* index of the data line the loop is at (1-based)
    records,    \* the list read_data_file fills
    data,       \* main's data = read_data_file(filepath)
    out,        \* what was printed, in order
    exit,       \* "none" while running, else the process exit status
    \* ---- the aggregator's callers
    heap,       \* record objects: object id -> dict
    input,      \* the shared Dataset: a list of object ids
    call,       \* per caller: the call in progress or completed, with its local variables
    \* ---- fibonacci(n)
    fn, fpc, prev, curr, fi, iters, fret

cliVars == <<hasArg, fs, content, pc, lines, headers, idx, records, data, out, exit>>
aggVars == <<heap, input, call>>
fibVars == <<fn, fpc, prev, curr, fi, iters, fret>>
vars == <<cliVars, aggVars, fibVars>>

(***************************************************************************)
(* Bounds                                                                  *)
(***************************************************************************)
MaxFileLen == 5
MaxRecords == 3
MaxSharedRecords == 2
MaxPrinted == 2
MaxFibN == 15

(***************************************************************************)
(* Text                                                                    *)
(***************************************************************************)
NL == "\n"
COMMA == ","
AMOUNT == <<"amount">>
CATEGORY == <<"category">>

\* the symbols a file is written in
FileSymbols == {"amount", "category", "1", COMMA, " ", NL}

\* str.strip() with no argument removes whitespace
Whitespace == {" ", NL}

RECURSIVE LStrip(_)
LStrip(s) ==
    IF s # <<>> /\ Head(s) \in Whitespace THEN LStrip(Tail(s)) ELSE s

RECURSIVE RStrip(_)
RStrip(s) ==
    IF s # <<>> /\ s[Len(s)] \in Whitespace THEN RStrip(SubSeq(s, 1, Len(s) - 1)) ELSE s

Strip(s) == RStrip(LStrip(s))

\* str.split(','): every comma separates; "" gives [""]
RECURSIVE Split(_)
Split(s) ==
    IF \A i \in 1..Len(s) : s[i] # COMMA
    THEN <<s>>
    ELSE LET i == CHOOSE j \in 1..Len(s) :
                      s[j] = COMMA /\ \A k \in 1..(j - 1) : s[k] # COMMA
         IN  <<SubSeq(s, 1, i - 1)>> \o Split(SubSeq(s, i + 1, Len(s)))

\* [x.strip() for x in s.split(',')]
SplitStrip(s) == LET p == Split(s) IN [i \in 1..Len(p) |-> Strip(p[i])]

\* f.readlines(): each line keeps its line feed; the last may lack one
RECURSIVE ReadLines(_)
ReadLines(s) ==
    IF s = <<>> THEN <<>>
    ELSE IF \A i \in 1..Len(s) : s[i] # NL
    THEN <<s>>
    ELSE LET i == CHOOSE j \in 1..Len(s) :
                      s[j] = NL /\ \A k \in 1..(j - 1) : s[k] # NL
         IN  <<SubSeq(s, 1, i)>> \o ReadLines(SubSeq(s, i + 1, Len(s)))

Min2(a, b) == IF a <= b THEN a ELSE b

\* dict(zip(h, v)) after the first n pairs: a later pair replaces an earlier
\* one with the same key
RECURSIVE DictOfPairs(_, _, _)
DictOfPairs(h, v, n) ==
    IF n = 0 THEN [k \in {} |-> <<>>]
    ELSE LET d == DictOfPairs(h, v, n - 1)
         IN  [k \in (DOMAIN d) \cup {h[n]} |-> IF k = h[n] THEN v[n] ELSE d[k]]

\* dict(zip(headers, values)): zip stops at the shorter
DictZip(h, v) == DictOfPairs(h, v, Min2(Len(h), Len(v)))

\* all sequences of at most n members of S
RECURSIVE SeqsUpTo(_, _)
SeqsUpTo(S, n) ==
    IF n = 0 THEN {<<>>}
    ELSE LET T == SeqsUpTo(S, n - 1)
         IN  T \cup {Append(t, c) : t \in {u \in T : Len(u) = n - 1}, c \in S}

(***************************************************************************)
(* main() and read_data_file()                                             *)
(***************************************************************************)
InitCli ==
    /\ pc = "main"
    /\ lines = <<>> /\ headers = <<>> /\ idx = 0
    /\ records = <<>> /\ data = <<>> /\ out = <<>>
    /\ exit = "none"
    /\ \/ hasArg = FALSE /\ fs = "missing" /\ content = <<>>
       \/ hasArg = TRUE /\ fs = "missing" /\ content = <<>>
       \/ hasArg = TRUE /\ fs \in {"ok", "denied", "readfail", "closefail"}
                        /\ content \in SeqsUpTo(FileSymbols, MaxFileLen)

IdleCli ==
    /\ hasArg = FALSE /\ fs = "missing" /\ content = <<>> /\ pc = "off"
    /\ lines = <<>> /\ headers = <<>> /\ idx = 0
    /\ records = <<>> /\ data = <<>> /\ out = <<>>
    /\ exit = "none"

\* lines 65-69
MainArgs ==
    /\ pc = "main"
    /\ IF ~hasArg
       THEN /\ out' = Append(out, <<"usage">>)
            /\ exit' = "1"
            /\ pc' = "exited"
       ELSE /\ pc' = "open"
            /\ UNCHANGED <<out, exit>>
    /\ UNCHANGED <<hasArg, fs, content, lines, headers, idx, records, data>>
    /\ UNCHANGED <<aggVars, fibVars>>

\* a loader whose second except clause is missing: only FileNotFoundError is caught
HandlerOnlyNotFound(kind) == IF kind = "FileNotFoundError" THEN "except_nf" ELSE "uncaught"

\* the handler an exception raised inside the try block reaches:
\* FileNotFoundError first, then any other Exception
Handler(kind) == IF kind = "FileNotFoundError" THEN "except_nf" ELSE "except_any"

\* line 15: leaving the with block closes the file, on a return as well;
\* where control goes from there
WithExit(status) == IF status = "closefail" THEN Handler("OSError") ELSE "returned"

\* line 15: open(filepath, 'r')
Open ==
    /\ pc = "open"
    /\ pc' = CASE fs = "missing" -> Handler("FileNotFoundError")
               [] fs = "denied" -> Handler("PermissionError")
               [] OTHER -> "readlines"
    /\ UNCHANGED <<hasArg, fs, content, lines, headers, idx, records, data, out, exit>>
    /\ UNCHANGED <<aggVars, fibVars>>

\* lines 16-18: readlines, and the early return on an empty file
ReadAll ==
    /\ pc = "readlines"
    /\ IF fs = "readfail"
       THEN /\ pc' = Handler("OSError")
            /\ UNCHANGED <<lines, data>>
       ELSE /\ lines' = ReadLines(content)
            /\ IF lines' = <<>>
               THEN /\ pc' = WithExit(fs)
                    /\ data' = IF pc' = "returned" THEN records ELSE data
               ELSE pc' = "headers" /\ UNCHANGED data
    /\ UNCHANGED <<hasArg, fs, content, headers, idx, records, out, exit>>
    /\ UNCHANGED <<aggVars, fibVars>>

\* line 20
ParseHeaders ==
    /\ pc = "headers"
    /\ headers' = SplitStrip(lines[1])
    /\ idx' = 2
    /\ pc' = "loop"
    /\ UNCHANGED <<hasArg, fs, content, lines, records, data, out, exit>>
    /\ UNCHANGED <<aggVars, fibVars>>

\* a loader that pairs the values without trimming them
RecordOfUntrimmed(hdrs, line) == DictZip(hdrs, Split(line))

\* the record built from one data line (lines 24-25)
RecordOf(hdrs, line) == DictZip(hdrs, SplitStrip(line))

\* a loader that tests the line itself, not the trimmed line
KeepsLineUntrimmed(line) == line # <<>>

\* line 23: the lines that give a record
KeepsLine(line) == Strip(line) # <<>>

\* lines 22-26, one iteration; line 34 when the lines are exhausted
LoopLine ==
    /\ pc = "loop"
    /\ IF idx <= Len(lines)
       THEN /\ records' = IF KeepsLine(lines[idx])
                          THEN Append(records, RecordOf(headers, lines[idx]))
                          ELSE records
            /\ idx' = idx + 1
            /\ UNCHANGED <<pc, data>>
       ELSE /\ pc' = WithExit(fs)
            /\ data' = IF pc' = "returned" THEN records ELSE data
            /\ UNCHANGED <<records, idx>>
    /\ UNCHANGED <<hasArg, fs, content, lines, headers, out, exit>>
    /\ UNCHANGED <<aggVars, fibVars>>

\* lines 27-29
ExceptNotFound ==
    /\ pc = "except_nf"
    /\ out' = Append(out, <<"not_found">>)
    /\ data' = <<>>
    /\ pc' = "returned"
    /\ UNCHANGED <<hasArg, fs, content, lines, headers, idx, records, exit>>
    /\ UNCHANGED <<aggVars, fibVars>>

\* lines 30-32
ExceptAny ==
    /\ pc = "except_any"
    /\ out' = Append(out, <<"read_error">>)
    /\ data' = <<>>
    /\ pc' = "returned"
    /\ UNCHANGED <<hasArg, fs, content, lines, headers, idx, records, exit>>
    /\ UNCHANGED <<aggVars, fibVars>>

\* a main that asks for more than one record
NoDataOffByOne(d) == Len(d) <= 1

\* line 72: "if not data"
NoData(d) == d = <<>>

\* lines 72-76
CheckData ==
    /\ pc = "returned"
    /\ IF NoData(data)
       THEN /\ out' = Append(out, <<"no_data">>)
            /\ exit' = "1"
            /\ pc' = "exited"
       ELSE /\ out' = Append(out, <<"loaded", Len(data)>>)
            /\ pc' = "amount"
            /\ UNCHANGED exit
    /\ UNCHANGED <<hasArg, fs, content, lines, headers, idx, records, data>>
    /\ UNCHANGED <<aggVars, fibVars>>

\* lines 78-83
PrintAmount ==
    /\ pc = "amount"
    /\ out' = IF AMOUNT \in DOMAIN data[1] THEN Append(out, <<"amount_stats">>) ELSE out
    /\ pc' = "category"
    /\ UNCHANGED <<hasArg, fs, content, lines, headers, idx, records, data, exit>>
    /\ UNCHANGED <<aggVars, fibVars>>

\* lines 85-87, and the return from main
PrintCategory ==
    /\ pc = "category"
    /\ out' = IF CATEGORY \in DOMAIN data[1] THEN Append(out, <<"categories">>) ELSE out
    /\ exit' = "0"
    /\ pc' = "exited"
    /\ UNCHANGED <<hasArg, fs, content, lines, headers, idx, records, data>>
    /\ UNCHANGED <<aggVars, fibVars>>

NextCli ==
    \/ MainArgs \/ Open \/ ReadAll \/ ParseHeaders \/ LoopLine
    \/ ExceptNotFound \/ ExceptAny \/ CheckData \/ PrintAmount \/ PrintCategory

IdleAgg == heap = <<>> /\ input = <<>> /\ call = <<>>
IdleFib == fn = 0 /\ fpc = "off" /\ prev = 0 /\ curr = 0 /\ fi = 0 /\ iters = 0 /\ fret = 0

Init == InitCli /\ IdleAgg /\ IdleFib
Next == NextCli
Spec == Init /\ [][Next]_vars


(***************************************************************************)
(* Properties of the loader and of main                                    *)
(***************************************************************************)
\* read_data_file has returned to main (main may have gone on)
Returned == pc \in {"returned", "amount", "category", "exited"} /\ hasArg

\* positions of the file's text where a line starts
LineStarts == {p \in 1..Len(content) : p = 1 \/ content[p - 1] = NL}

\* the last position of the line that starts at p
LineEnd(p) ==
    IF \E q \in p..Len(content) : content[q] = NL
    THEN CHOOSE q \in p..Len(content) :
             content[q] = NL /\ \A r \in p..(q - 1) : content[r] # NL
    ELSE Len(content)

\* the starts of the lines after the first that hold something besides whitespace
NonBlankDataLineStarts ==
    {p \in LineStarts : p > 1 /\ \E q \in p..LineEnd(p) : content[q] \notin Whitespace}

\* p's rank among the members of S
Rank(S, p) == Cardinality({q \in S : q <= p})

\* C1: for a readable file, read_data_file returns as many records as there are
\* lines after the first that are not blank after trimming; the first line never
\* gives a record; the empty file and the header-only file give the empty
\* Dataset, and no diagnostic is printed.
C1_RecordCount ==
    (Returned /\ fs = "ok") =>
        /\ Len(data) = Cardinality(NonBlankDataLineStarts)
        /\ (Cardinality(LineStarts) <= 1 => data = <<>>)
        /\ \A i \in 1..Len(out) : out[i][1] \notin {"not_found", "read_error"}

\* a file with a blank line between two data lines has been loaded
C1_Witness ==
    /\ pc = "returned" /\ fs = "ok"
    /\ Len(data) = 2
    /\ Cardinality(LineStarts) = 4

\* the text of the line that starts at p
LineAt(p) == SubSeq(content, p, LineEnd(p))

\* C2 as stated: record k pairs value i of the k-th non-blank data line with
\* header token i, for every i up to the shorter of the two lengths.
C2_EveryPairKept ==
    (Returned /\ fs = "ok") =>
        /\ Len(data) = Cardinality(NonBlankDataLineStarts)
        /\ \A p \in NonBlankDataLineStarts :
              LET rec == data[Rank(NonBlankDataLineStarts, p)]
                  hdr == SplitStrip(LineAt(1))
                  val == SplitStrip(LineAt(p))
                  m == Min2(Len(hdr), Len(val))
              IN  /\ DOMAIN rec = {hdr[i] : i \in 1..m}
                  /\ \A i \in 1..m : rec[hdr[i]] = val[i]

\* C2, amended: record k holds exactly the header tokens 1..m as keys (m the
\* shorter of header length and row length), and under header token i the
\* value i, unless a later position up to m repeats that token: of the values
\* paired with a repeated token the last one is kept.
C2_LastPairKept ==
    (Returned /\ fs = "ok") =>
        /\ Len(data) = Cardinality(NonBlankDataLineStarts)
        /\ \A p \in NonBlankDataLineStarts :
              LET rec == data[Rank(NonBlankDataLineStarts, p)]
                  hdr == SplitStrip(LineAt(1))
                  val == SplitStrip(LineAt(p))
                  m == Min2(Len(hdr), Len(val))
              IN  /\ DOMAIN rec = {hdr[i] : i \in 1..m}
                  /\ DOMAIN rec \subseteq {hdr[i] : i \in 1..Len(hdr)}
                  /\ \A i \in 1..m :
                        (\A j \in (i + 1)..m : hdr[j] # hdr[i]) => rec[hdr[i]] = val[i]

\* a two-token header, one token empty, and a two-value row have given one
\* record with the two keys
C2_Witness ==
    /\ pc = "returned" /\ fs = "ok"
    /\ content = <<"amount", COMMA, NL, COMMA, "1">>
    /\ data = <<[k \in {AMOUNT, <<>>} |-> IF k = AMOUNT THEN <<>> ELSE <<"1">>]>>

\* C3: read_data_file never lets an exception reach its caller; when the path
\* does not exist, or opening or reading fails, it prints a diagnostic and
\* returns the empty Dataset.
C3_FailuresCaught ==
    /\ pc # "uncaught"
    /\ (Returned /\ fs # "ok") =>
          /\ data = <<>>
          /\ out # <<>>
          /\ out[1] = IF fs = "missing" THEN <<"not_found">> ELSE <<"read_error">>

\* a failure after two records were built has returned the empty Dataset
C3_Witness == pc = "returned" /\ fs = "closefail" /\ Len(records) = 2 /\ data = <<>>

\* C8 as stated: no argument gives usage and a non-zero status without a load;
\* a missing or unreadable file gives a diagnostic and a non-zero status; every
\* file read without I/O failure gives the record count and no non-zero status.
C8_EveryReadableFileSucceeds ==
    (pc = "exited") =>
        /\ ~hasArg => (out = << <<"usage">> >> /\ exit = "1")
        /\ (hasArg /\ fs # "ok") =>
              (out[1] \in {<<"not_found">>, <<"read_error">>} /\ exit = "1")
        /\ (hasArg /\ fs = "ok") =>
              (out[1] = <<"loaded", Len(data)>> /\ exit # "1")

\* what main does where C8 as stated fails: a file read without I/O failure
\* that holds no non-blank line after its first line prints "No data loaded"
\* and no record count and exits with status 1; with at least one such line
\* the record count is printed first and the process ends with status 0.
C8_MainOutcomes ==
    (pc = "exited") =>
        /\ ~hasArg => (out = << <<"usage">> >> /\ exit = "1")
        /\ (hasArg /\ fs # "ok") =>
              /\ out[1] \in {<<"not_found">>, <<"read_error">>}
              /\ out[Len(out)] = <<"no_data">>
              /\ exit = "1"
        /\ (hasArg /\ fs = "ok" /\ NonBlankDataLineStarts = {}) =>
              (out = << <<"no_data">> >> /\ exit = "1")
        /\ (hasArg /\ fs = "ok" /\ NonBlankDataLineStarts # {}) =>
              /\ out[1] = <<"loaded", Cardinality(NonBlankDataLineStarts)>>
              /\ exit = "0"

\* main has ended on a one-record file whose header names amount and category
C8_Witness ==
    /\ pc = "exited" /\ fs = "ok" /\ exit = "0"
    /\ out = << <<"loaded", 1>>, <<"amount_stats">>, <<"categories">> >>

(***************************************************************************)
(* fibonacci(n)                                                            *)
(***************************************************************************)
InitFib ==
    /\ fn \in (-3)..MaxFibN
    /\ fpc = "entry"
    /\ prev = 0 /\ curr = 0 /\ fi = 0 /\ iters = 0 /\ fret = 0

\* a loop seeded with 1, 1
FibSeedOnes == <<1, 1>>

\* line 8: prev, curr = 0, 1
FibSeed == <<0, 1>>

\* lines 3-8
FibEntry ==
    /\ fpc = "entry"
    /\ IF fn <= 0
       THEN fret' = 0 /\ fpc' = "done" /\ UNCHANGED <<prev, curr, fi>>
       ELSE IF fn = 1
       THEN fret' = 1 /\ fpc' = "done" /\ UNCHANGED <<prev, curr, fi>>
       ELSE /\ prev' = FibSeed[1]
            /\ curr' = FibSeed[2]
            /\ fi' = 2
            /\ fpc' = "loop"
            /\ UNCHANGED fret
    /\ UNCHANGED <<fn, iters>>
    /\ UNCHANGED <<cliVars, aggVars>>

\* lines 9-10, one iteration of range(2, n + 1); iters counts the iterations
FibLoop ==
    /\ fpc = "loop"
    /\ fi <= fn
    /\ prev' = curr
    /\ curr' = prev + curr
    /\ fi' = fi + 1
    /\ iters' = iters + 1
    /\ UNCHANGED <<fn, fpc, fret>>
    /\ UNCHANGED <<cliVars, aggVars>>

\* line 12, when the range is exhausted
FibReturn ==
    /\ fpc = "loop"
    /\ fi > fn
    /\ fret' = curr
    /\ fpc' = "done"
    /\ UNCHANGED <<fn, prev, curr, fi, iters>>
    /\ UNCHANGED <<cliVars, aggVars>>

NextFib == FibEntry \/ FibLoop \/ FibReturn

InitFibOnly == InitFib /\ IdleCli /\ IdleAgg

SpecFib == InitFibOnly /\ [][NextFib]_vars

\* the Fibonacci numbers: F(0) = 0, F(1) = 1, F(k) = F(k-1) + F(k-2)
RECURSIVE F(_)
F(k) == IF k = 0 THEN 0 ELSE IF k = 1 THEN 1 ELSE F(k - 1) + F(k - 2)

\* C10: fibonacci(n) returns F(n) for n >= 0 and 0 for n <= 0; once the loop
\* has processed index i, prev = F(i-1) and curr = F(i); for n >= 2 it ends
\* after exactly n - 1 iterations.
C10_Fibonacci ==
    /\ (fpc = "done") =>
          /\ fret = IF fn <= 0 THEN 0 ELSE F(fn)
          /\ iters = IF fn >= 2 THEN fn - 1 ELSE 0
    /\ (fpc = "loop") =>
          /\ fi \in 2..(fn + 1)
          /\ iters = fi - 2
          /\ prev = F(fi - 2)
          /\ curr = F(fi - 1)

\* fibonacci(10) has returned 55 after nine iterations
C10_Witness == fpc = "done" /\ fn = 10 /\ fret = 55 /\ iters = 9

(***************************************************************************)
(* Natural numbers of any size: a sequence of bits, the least significant  *)
(* first and the last one 1; <<>> is 0                                     *)
(***************************************************************************)
Max2(a, b) == IF a >= b THEN a ELSE b

\* the highest (lowest) position in lo..hi where b has a 1, or 0
RECURSIVE HighestOne(_, _, _)
HighestOne(b, lo, hi) ==
    IF lo > hi THEN 0
    ELSE IF lo = hi THEN (IF b[lo] = 1 THEN lo ELSE 0)
    ELSE LET mid == (lo + hi) \div 2
             h == HighestOne(b, mid + 1, hi)
         IN  IF h # 0 THEN h ELSE HighestOne(b, lo, mid)

RECURSIVE LowestOne(_, _, _)
LowestOne(b, lo, hi) ==
    IF lo > hi THEN 0
    ELSE IF lo = hi THEN (IF b[lo] = 1 THEN lo ELSE 0)
    ELSE LET mid == (lo + hi) \div 2
             l == LowestOne(b, lo, mid)
         IN  IF l # 0 THEN l ELSE LowestOne(b, mid + 1, hi)

\* b without its leading zero bits
BnTrim(b) == SubSeq(b, 1, HighestOne(b, 1, Len(b)))

BnBit(b, i) == IF i <= Len(b) THEN b[i] ELSE 0

RECURSIVE BnFromInt(_)
BnFromInt(n) == IF n = 0 THEN <<>> ELSE <<n % 2>> \o BnFromInt(n \div 2)

\* bits lo..hi of a + b + c and the carry out of them, by halves
RECURSIVE BnAddRange(_, _, _, _, _)
BnAddRange(a, b, lo, hi, c) ==
    IF lo = hi
    THEN LET s == BnBit(a, lo) + BnBit(b, lo) + c IN <<<<s % 2>>, s \div 2>>
    ELSE LET mid == (lo + hi) \div 2
             l == BnAddRange(a, b, lo, mid, c)
             h == BnAddRange(a, b, mid + 1, hi, l[2])
         IN  <<l[1] \o h[1], h[2]>>

BnAdd(a, b) ==
    IF a = <<>> THEN b
    ELSE IF b = <<>> THEN a
    ELSE LET r == BnAddRange(a, b, 1, Max2(Len(a), Len(b)), 0)
         IN  IF r[2] = 1 THEN Append(r[1], 1) ELSE r[1]

\* bits lo..hi of a - b - c and the borrow out of them, by halves
RECURSIVE BnSubRange(_, _, _, _, _)
BnSubRange(a, b, lo, hi, c) ==
    IF lo = hi
    THEN LET d == BnBit(a, lo) - BnBit(b, lo) - c
         IN  <<<<(d + 2) % 2>>, IF d < 0 THEN 1 ELSE 0>>
    ELSE LET mid == (lo + hi) \div 2
             l == BnSubRange(a, b, lo, mid, c)
             h == BnSubRange(a, b, mid + 1, hi, l[2])
         IN  <<l[1] \o h[1], h[2]>>

\* a - b, for a >= b
BnSub(a, b) == IF b = <<>> THEN a ELSE BnTrim(BnSubRange(a, b, 1, Len(a), 0)[1])

\* -1, 0 or 1 as a < b, a = b or a > b
BnCmp(a, b) ==
    IF Len(a) # Len(b) THEN (IF Len(a) < Len(b) THEN -1 ELSE 1)
    ELSE IF a = b THEN 0
    ELSE LET i == HighestOne([j \in 1..Len(a) |-> (a[j] + b[j]) % 2], 1, Len(a))
         IN  IF a[i] < b[i] THEN -1 ELSE 1

\* a * 2^k
BnShl(a, k) == IF a = <<>> THEN <<>> ELSE [i \in 1..k |-> 0] \o a

\* a \div 2^k
BnShr(a, k) == IF k >= Len(a) THEN <<>> ELSE SubSeq(a, k + 1, Len(a))

\* a % 2^k
BnLow(a, k) == BnTrim(SubSeq(a, 1, IF k <= Len(a) THEN k ELSE Len(a)))

\* a times bits lo..hi of b, by halves
RECURSIVE BnMulRange(_, _, _, _)
BnMulRange(a, b, lo, hi) ==
    IF lo = hi THEN (IF b[lo] = 1 THEN a ELSE <<>>)
    ELSE LET mid == (lo + hi) \div 2
         IN  BnAdd(BnMulRange(a, b, lo, mid),
                   BnShl(BnMulRange(a, b, mid + 1, hi), mid + 1 - lo))

BnMul(a, b) == IF a = <<>> \/ b = <<>> THEN <<>> ELSE BnMulRange(a, b, 1, Len(b))

\* long division by b over bits hi down to lo of a, entered with remainder r:
\* <<those bits of the quotient, the highest first, the remainder left>>, by
\* halves
RECURSIVE BnDivRange(_, _, _, _, _)
BnDivRange(a, b, hi, lo, r) ==
    IF hi = lo
    THEN LET r2 == IF r = <<>> /\ a[hi] = 0 THEN <<>> ELSE <<a[hi]>> \o r
         IN  IF BnCmp(r2, b) >= 0 THEN <<<<1>>, BnSub(r2, b)>> ELSE <<<<0>>, r2>>
    ELSE LET mid == (lo + hi) \div 2
             h == BnDivRange(a, b, hi, mid + 1, r)
             l == BnDivRange(a, b, mid, lo, h[2])
         IN  <<h[1] \o l[1], l[2]>>

Reverse(s) == [i \in 1..Len(s) |-> s[Len(s) + 1 - i]]

\* <<a \div b, a % b>>, for b > 0: the top Len(b) - 1 bits of a are below b
BnDivMod(a, b) ==
    IF Len(a) < Len(b) THEN <<<<>>, a>>
    ELSE LET n == Len(a) - Len(b) + 1
             r == BnDivRange(a, b, n, 1, BnTrim(SubSeq(a, n + 1, Len(a))))
         IN  <<BnTrim(Reverse(r[1])), r[2]>>

BnTimes10(a) == BnAdd(BnShl(a, 3), BnShl(a, 1))

RECURSIVE BnPow10(_)
BnPow10(k) ==
    IF k = 0 THEN <<1>>
    ELSE IF k % 2 = 1 THEN BnTimes10(BnPow10(k - 1))
    ELSE LET h == BnPow10(k \div 2) IN BnMul(h, h)

Digits == {"0", "1", "2", "3", "4", "5", "6", "7", "8", "9"}

DigitValue(c) ==
    CASE c = "0" -> 0 [] c = "1" -> 1 [] c = "2" -> 2 [] c = "3" -> 3 [] c = "4" -> 4
      [] c = "5" -> 5 [] c = "6" -> 6 [] c = "7" -> 7 [] c = "8" -> 8 [] c = "9" -> 9

\* the number a run of decimal digits writes, by halves
RECURSIVE BnFromDec(_)
BnFromDec(s) ==
    IF s = <<>> THEN <<>>
    ELSE IF Len(s) = 1 THEN BnFromInt(DigitValue(s[1]))
    ELSE LET k == Len(s) \div 2
         IN  BnAdd(BnMul(BnFromDec(SubSeq(s, 1, k)), BnPow10(Len(s) - k)),
                   BnFromDec(SubSeq(s, k + 1, Len(s))))

(***************************************************************************)
(* Floats (IEEE 754 binary64, round to nearest, ties to even):             *)
(* [kind, sign, m, e] is (-1)^sign * m * 2^e with m odd, or zero (m = <<>>, *)
(* e = 0); kind "inf" and "nan" keep m = <<>>, e = 0                        *)
(***************************************************************************)
FZero(sign) == [kind |-> "fin", sign |-> sign, m |-> <<>>, e |-> 0]
FInf(sign) == [kind |-> "inf", sign |-> sign, m |-> <<>>, e |-> 0]
Zero == FZero(0)
NaN == [kind |-> "nan", sign |-> 0, m |-> <<>>, e |-> 0]
IsNaN(x) == x.kind = "nan"
IsZero(x) == x.kind = "fin" /\ x.m = <<>>

\* m * 2^e written with m odd, for m > 0
Canon(sign, m, e) ==
    LET z == LowestOne(m, 1, Len(m)) - 1
    IN  [kind |-> "fin", sign |-> sign, m |-> SubSeq(m, z + 1, Len(m)), e |-> e + z]

\* the double nearest to (-1)^sign * (p / q) * 2^e2, for q > 0: the quotient
\* is taken to 55 or 56 bits with a sticky remainder, cut to 53 bits (fewer
\* below 2^-1022) and rounded; 2^1024 and above is infinity
RoundScaled(sign, p, q, e2) ==
    IF p = <<>> THEN FZero(sign)
    ELSE LET s == 55 - (Len(p) - Len(q))
             qr == BnDivMod(IF s >= 0 THEN BnShl(p, s) ELSE p,
                            IF s >= 0 THEN q ELSE BnShl(q, -s))
             n == qr[1]
             sticky == qr[2] # <<>>
             base == e2 - s
             elow == Max2(base + Len(n) - 53, -1074)
             drop == elow - base
             kept == BnShr(n, drop)
             cmp == BnCmp(BnLow(n, drop), BnShl(<<1>>, drop - 1))
             up == cmp = 1 \/ (cmp = 0 /\ (sticky \/ BnBit(kept, 1) = 1))
             m == IF up THEN BnAdd(kept, <<1>>) ELSE kept
         IN  IF m = <<>> THEN FZero(sign)
             ELSE IF Len(m) + elow > 1024 THEN FInf(sign)
             ELSE Canon(sign, m, elow)

\* -1, 0 or 1 as |x| < |y|, |x| = |y| or |x| > |y|, for x, y not NaN
MagCmp(x, y) ==
    IF x.kind = "inf" \/ y.kind = "inf"
    THEN (IF x.kind = y.kind THEN 0 ELSE IF x.kind = "inf" THEN 1 ELSE -1)
    ELSE IF x.m = <<>> \/ y.m = <<>>
    THEN (IF x.m = y.m THEN 0 ELSE IF x.m = <<>> THEN -1 ELSE 1)
    ELSE IF Len(x.m) + x.e # Len(y.m) + y.e
    THEN (IF Len(x.m) + x.e < Len(y.m) + y.e THEN -1 ELSE 1)
    ELSE LET e == IF x.e <= y.e THEN x.e ELSE y.e
         IN  BnCmp(BnShl(x.m, x.e - e), BnShl(y.m, y.e - e))

\* x is below zero
Negative(x) == x.sign = 1 /\ ~IsZero(x)

\* x < y and x > y on floats: every comparison with NaN is false
Lt(x, y) ==
    /\ ~IsNaN(x) /\ ~IsNaN(y)
    /\ IF Negative(x) # Negative(y) THEN Negative(x)
       ELSE IF Negative(x) THEN MagCmp(x, y) = 1
       ELSE MagCmp(x, y) = -1
Gt(x, y) == Lt(y, x)

\* x + y on floats
Add(x, y) ==
    IF IsNaN(x) \/ IsNaN(y) THEN NaN
    ELSE IF x.kind = "inf" /\ y.kind = "inf"
    THEN (IF x.sign = y.sign THEN x ELSE NaN)
    ELSE IF x.kind = "inf" THEN x
    ELSE IF y.kind = "inf" THEN y
    ELSE IF IsZero(x) /\ IsZero(y) THEN FZero(IF x.sign = y.sign THEN x.sign ELSE 0)
    ELSE IF IsZero(x) THEN y
    ELSE IF IsZero(y) THEN x
    ELSE LET e == IF x.e <= y.e THEN x.e ELSE y.e
             a == BnShl(x.m, x.e - e)
             b == BnShl(y.m, y.e - e)
             c == BnCmp(a, b)
         IN  IF x.sign = y.sign THEN RoundScaled(x.sign, BnAdd(a, b), <<1>>, e)
             ELSE IF c = 0 THEN Zero
             ELSE IF c = 1 THEN RoundScaled(x.sign, BnSub(a, b), <<1>>, e)
             ELSE RoundScaled(y.sign, BnSub(b, a), <<1>>, e)

\* x / n on floats, for a count n >= 1
DivInt(x, n) ==
    IF x.kind # "fin" THEN x ELSE RoundScaled(x.sign, x.m, BnFromInt(n), x.e)

(***************************************************************************)
(* float(text)                                                             *)
(***************************************************************************)
UpperLetters == <<"A", "B", "C", "D", "E", "F", "G", "H", "I", "J", "K", "L", "M",
                  "N", "O", "P", "Q", "R", "S", "T", "U", "V", "W", "X", "Y", "Z">>
LowerLetters == <<"a", "b", "c", "d", "e", "f", "g", "h", "i", "j", "k", "l", "m",
                  "n", "o", "p", "q", "r", "s", "t", "u", "v", "w", "x", "y", "z">>

\* the lower-case form of a letter
Lower(c) ==
    IF \E i \in 1..26 : UpperLetters[i] = c
    THEN LowerLetters[CHOOSE i \in 1..26 : UpperLetters[i] = c]
    ELSE c

\* s is the word w (given in lower case), in any case
IsWord(s, w) == Len(s) = Len(w) /\ \A i \in 1..Len(w) : Lower(s[i]) = w[i]

IsInfText(s) ==
    \/ IsWord(s, <<"i", "n", "f">>)
    \/ IsWord(s, <<"i", "n", "f", "i", "n", "i", "t", "y">>)
IsNaNText(s) == IsWord(s, <<"n", "a", "n">>)

AllDigits(s) == \A i \in 1..Len(s) : s[i] \in Digits

\* an underscore stands only between two digits
UnderscoresOK(s) ==
    \A i \in 1..Len(s) :
        s[i] = "_" => (i > 1 /\ i < Len(s) /\ s[i - 1] \in Digits /\ s[i + 1] \in Digits)

DropUnderscores(s) == SelectSeq(s, LAMBDA c : c # "_")

\* the position after the run of digits that starts at i
DigitRunEnd(s, i) ==
    CHOOSE j \in i..(Len(s) + 1) :
        /\ (j = Len(s) + 1 \/ s[j] \notin Digits)
        /\ \A k \in i..(j - 1) : s[k] \in Digits

\* the parts of an unsigned decimal text: integer digits, fraction digits and
\* what follows them
DecimalParts(s) ==
    LET i1 == DigitRunEnd(s, 1)
        point == i1 <= Len(s) /\ s[i1] = "."
        i2 == IF point THEN DigitRunEnd(s, i1 + 1) ELSE i1
    IN  [int |-> SubSeq(s, 1, i1 - 1),
         frac |-> IF point THEN SubSeq(s, i1 + 1, i2 - 1) ELSE <<>>,
         rest |-> SubSeq(s, i2, Len(s))]

\* an exponent part without its e: an optional sign and at least one digit
ExponentDigits(r) == IF r # <<>> /\ r[1] \in {"+", "-"} THEN Tail(r) ELSE r

ExponentOK(rest) ==
    \/ rest = <<>>
    \/ /\ Lower(rest[1]) = "e"
       /\ ExponentDigits(Tail(rest)) # <<>>
       /\ AllDigits(ExponentDigits(Tail(rest)))

\* digits without their leading zeros
DropLeadingZeros(s) ==
    IF \A i \in 1..Len(s) : s[i] = "0" THEN <<>>
    ELSE SubSeq(s, CHOOSE i \in 1..Len(s) :
                       s[i] # "0" /\ \A j \in 1..(i - 1) : s[j] = "0", Len(s))

\* the number a short bit sequence holds
RECURSIVE BnToInt(_)
BnToInt(b) == IF b = <<>> THEN 0 ELSE Head(b) + 2 * BnToInt(Tail(b))

\* the exponent written after the e, where its size is at most limit; a
\* larger one gives limit + 1 with its sign
ExponentValue(rest, limit) ==
    IF rest = <<>> THEN 0
    ELSE LET x == BnFromDec(DropLeadingZeros(ExponentDigits(Tail(rest))))
             v == IF BnCmp(x, BnFromInt(limit)) = 1 THEN limit + 1 ELSE BnToInt(x)
         IN  IF Tail(rest)[1] = "-" THEN -v ELSE v

\* the text without its sign
Unsigned(s) == IF s # <<>> /\ s[1] \in {"+", "-"} THEN Tail(s) ELSE s

\* float(text) does not raise ValueError: after trimming whitespace the text
\* is an optional sign and then inf, infinity or nan in any case, or decimal
\* digits with an optional point and an optional exponent, at least one digit
\* before the exponent, underscores between digits only
CanFloat(text) ==
    LET s == Strip(text)
        u == Unsigned(s)
        p == DecimalParts(DropUnderscores(u))
    IN  \/ IsInfText(u)
        \/ IsNaNText(u)
        \/ /\ UnderscoresOK(s)
           /\ Len(p.int) + Len(p.frac) >= 1
           /\ ExponentOK(p.rest)

\* float(text), where it does not raise: the double nearest to the decimal
\* value; from 10^309 it is infinity, below 10^-325 zero.  An exponent larger
\* than the count of the digits plus 400 puts the value beyond one of these
\* two whatever the digits are, so that ExponentValue need not be exact there
Float(text) ==
    LET s == Strip(text)
        sign == IF s # <<>> /\ s[1] = "-" THEN 1 ELSE 0
        u == Unsigned(s)
        p == DecimalParts(DropUnderscores(u))
        d == DropLeadingZeros(p.int \o p.frac)
        e10 == ExponentValue(p.rest, Len(p.frac) + Len(d) + 400) - Len(p.frac)
    IN  IF IsNaNText(u) THEN NaN
        ELSE IF IsInfText(u) THEN FInf(sign)
        ELSE IF d = <<>> THEN FZero(sign)
        ELSE IF e10 + Len(d) - 1 >= 309 THEN FInf(sign)
        ELSE IF e10 + Len(d) <= -325 THEN FZero(sign)
        ELSE IF e10 >= 0
        THEN RoundScaled(sign, BnMul(BnFromDec(d), BnPow10(e10)), <<1>>, 0)
        ELSE RoundScaled(sign, BnFromDec(d), BnPow10(-e10), 0)

\* min(values): the first item, replaced by each later item that is < it
RECURSIVE PyMin(_)
PyMin(values) ==
    IF Len(values) = 1 THEN values[1]
    ELSE LET best == PyMin(SubSeq(values, 1, Len(values) - 1))
             item == values[Len(values)]
         IN  IF Lt(item, best) THEN item ELSE best

\* max(values): the first item, replaced by each later item that is > it
RECURSIVE PyMax(_)
PyMax(values) ==
    IF Len(values) = 1 THEN values[1]
    ELSE LET best == PyMax(SubSeq(values, 1, Len(values) - 1))
             item == values[Len(values)]
         IN  IF Gt(item, best) THEN item ELSE best

\* sum(values): from 0, each item added in turn (CPython 3.11 and earlier;
\* from 3.12 sum compensates the rounding of float items)
RECURSIVE PySum(_)
PySum(values) ==
    IF values = <<>> THEN Zero
    ELSE Add(PySum(SubSeq(values, 1, Len(values) - 1)), values[Len(values)])

(***************************************************************************)
(* calculate_statistics and filter_by_category                             *)
(***************************************************************************)
\* lines 42-46: what one record adds to values
StatsStep(values, rec, field) ==
    IF field \in DOMAIN rec /\ CanFloat(rec[field])
    THEN Append(values, Float(rec[field]))
    ELSE values

\* a version that forgets its result when there is nothing to aggregate
StatsResultNoZero(values) ==
    IF values = <<>> THEN <<>>
    ELSE <<PyMin(values), PyMax(values), DivInt(PySum(values), Len(values))>>

\* lines 48-55
StatsResult(values) ==
    IF values = <<>> THEN <<Zero, Zero, Zero>>
    ELSE <<PyMin(values), PyMax(values), DivInt(PySum(values), Len(values))>>

\* record.get(field): <<TRUE, value>>, or <<FALSE, <<>>>> for None
DictGet(rec, field) ==
    IF field \in DOMAIN rec THEN <<TRUE, rec[field]>> ELSE <<FALSE, <<>>>>

\* record.get(field, ''), as main's line 86 reads a field
MatchesDefaultEmpty(rec, field, value) ==
    (IF field \in DOMAIN rec THEN rec[field] ELSE <<>>) = value

\* line 60: record.get(category_field) == category_value; None equals no text
Matches(rec, field, value) ==
    LET g == DictGet(rec, field) IN g[1] /\ g[2] = value

\* line 60: what one record adds to the new list (the record object itself)
FilterStep(acc, id, rec, field, value) ==
    IF Matches(rec, field, value) THEN Append(acc, id) ELSE acc

\* a call as if run alone: the values calculate_statistics collects
RECURSIVE StatsValues(_, _, _)
StatsValues(ids, h, field) ==
    IF ids = <<>> THEN <<>>
    ELSE StatsStep(StatsValues(SubSeq(ids, 1, Len(ids) - 1), h, field),
                   h[ids[Len(ids)]], field)

CalculateStatistics(ids, h, field) == StatsResult(StatsValues(ids, h, field))

RECURSIVE FilterByCategory(_, _, _, _)
FilterByCategory(ids, h, field, value) ==
    IF ids = <<>> THEN <<>>
    ELSE FilterStep(FilterByCategory(SubSeq(ids, 1, Len(ids) - 1), h, field, value),
                    ids[Len(ids)], h[ids[Len(ids)]], field, value)

RECURSIVE ParseLines(_, _)
ParseLines(hdrs, lns) ==
    IF lns = <<>> THEN <<>>
    ELSE LET before == ParseLines(hdrs, SubSeq(lns, 1, Len(lns) - 1))
             line == lns[Len(lns)]
         IN  IF KeepsLine(line) THEN Append(before, RecordOf(hdrs, line)) ELSE before

ReadDataFile(status, text) ==
    LET lns == ReadLines(text)
    IN  IF status # "ok" \/ lns = <<>> THEN <<>>
        ELSE ParseLines(SplitStrip(lns[1]), Tail(lns))

\* ---- inputs
T10 == <<"1", "0">>
T20 == <<"2", "0">>
ABC == <<"a", "b", "c">>
NAN == <<"n", "a", "n">>
INF == <<"i", "n", "f">>
\* digits that no double holds exactly: float gives 235030756939380288.0
BIG == <<"2", "3", "5", "0", "3", "0", "7", "5", "6", "9", "3", "9", "3", "8", "0", "2", "9", "0">>
MutText == <<"z">>

EmptyRecord == [k \in {} |-> <<>>]
AggValues == {T10, T20, ABC, NAN, INF, BIG}
AggRecords == {EmptyRecord} \cup {[k \in {AMOUNT} |-> v] : v \in AggValues}
ConcRecords == {EmptyRecord} \cup {[k \in {AMOUNT} |-> v] : v \in {T10, ABC}}
FieldArgs == {AMOUNT, CATEGORY}
FilterArgs == {T10, ABC, <<"A", "B", "C">>, <<>>}
ConcFiles == {<<>>, <<"amount", NL, NL, "1", NL>>}

\* ---- a caller's call frame
IdleFrame ==
    [op |-> "none", st |-> "idle", field |-> <<>>, value |-> <<>>, i |-> 0,
     acc |-> <<>>, lines |-> <<>>, headers |-> <<>>, res |-> <<>>]

Callers == DOMAIN call
Ready(c) == call[c].st \in {"idle", "done"}

\* an accumulator that outlives the call, as a mutable default argument does
StartAccKept(c, op) ==
    IF op = "filter" /\ call[c].op = "filter" THEN call[c].res ELSE <<>>

\* line 39 (values = []) and line 60 (a new list): every call starts empty
StartAcc(c, op) == <<>>

Started(c, op, field, value) ==
    [IdleFrame EXCEPT !.op = op, !.st = "loop", !.field = field, !.value = value,
                      !.i = 1, !.acc = StartAcc(c, op)]

Finished(frame, result) ==
    [IdleFrame EXCEPT !.op = frame.op, !.st = "done", !.field = frame.field,
                      !.value = frame.value, !.res = result]

InitAgg(recs, n, callers) ==
    /\ heap \in SeqsUpTo(recs, n)
    /\ input = [i \in 1..Len(heap) |-> i]
    /\ call = [c \in callers |-> IdleFrame]

\* line 37: a call of calculate_statistics(data, field)
BeginStats(c) ==
    /\ Ready(c)
    /\ \E f \in FieldArgs : call' = [call EXCEPT ![c] = Started(c, "stats", f, <<>>)]
    /\ UNCHANGED <<heap, input, cliVars, fibVars>>

\* lines 41-46, one record; lines 48-55 when the list is exhausted
StatsLoop(c) ==
    /\ call[c].st = "loop" /\ call[c].op = "stats"
    /\ IF call[c].i <= Len(input)
       THEN call' = [call EXCEPT ![c].acc =
                         StatsStep(@, heap[input[call[c].i]], call[c].field),
                                 ![c].i = @ + 1]
       ELSE call' = [call EXCEPT ![c] = Finished(@, StatsResult(@.acc))]
    /\ UNCHANGED <<heap, input, cliVars, fibVars>>

\* line 58: a call of filter_by_category(data, field, value)
BeginFilter(c) ==
    /\ Ready(c)
    /\ \E f \in FieldArgs, v \in FilterArgs :
          call' = [call EXCEPT ![c] = Started(c, "filter", f, v)]
    /\ UNCHANGED <<heap, input, cliVars, fibVars>>

\* line 60, one record; the return when the list is exhausted
FilterLoop(c) ==
    /\ call[c].st = "loop" /\ call[c].op = "filter"
    /\ IF call[c].i <= Len(input)
       THEN call' = [call EXCEPT ![c].acc =
                         FilterStep(@, input[call[c].i], heap[input[call[c].i]],
                                    call[c].field, call[c].value),
                                 ![c].i = @ + 1]
       ELSE call' = [call EXCEPT ![c] = Finished(@, @.acc)]
    /\ UNCHANGED <<heap, input, cliVars, fibVars>>

NextAgg ==
    \/ \E c \in Callers : BeginStats(c)
    \/ \E c \in Callers : StatsLoop(c)
    \/ \E c \in Callers : BeginFilter(c)
    \/ \E c \in Callers : FilterLoop(c)

\* one caller, any Dataset of at most MaxRecords records
InitAggOne == InitAgg(AggRecords, MaxRecords, {1}) /\ IdleCli /\ IdleFib

SpecAgg == InitAggOne /\ [][NextAgg]_vars

(***************************************************************************)
(* Properties of the aggregator                                            *)
(***************************************************************************)
\* the input records, in order
InputRecords == [i \in 1..Len(input) |-> heap[input[i]]]

\* positions of the records that hold the field with a value float accepts
Coercing(field) ==
    {i \in 1..Len(input) : field \in DOMAIN heap[input[i]] /\ CanFloat(heap[input[i]][field])}

\* x <= y on floats
Leq(x, y) == ~IsNaN(x) /\ ~IsNaN(y) /\ ~Lt(y, x)

StatsDone(c) == call[c].op = "stats" /\ call[c].st = "done"
FilterDone(c) == call[c].op = "filter" /\ call[c].st = "done"

\* C4: when no value coerces (the Dataset is empty, or no record holds the
\* field, or every record that holds it has a value float rejects),
\* calculate_statistics returns exactly (0.0, 0.0, 0.0).
C4_ZeroWhenNothingCoerces ==
    \A c \in Callers :
        (StatsDone(c) /\ Coercing(call[c].field) = {}) =>
            call[c].res = <<Zero, Zero, Zero>>

\* three records, two of them with a non-numeric amount and one without the field
C4_Witness ==
    /\ StatsDone(1) /\ call[1].field = AMOUNT
    /\ Len(input) = 3
    /\ heap[1] = [k \in {AMOUNT} |-> ABC] /\ heap[2] = EmptyRecord
    /\ call[1].res = <<Zero, Zero, Zero>>

\* the sum of the coerced values at the positions in S
RECURSIVE SumAt(_, _)
SumAt(S, field) ==
    IF S = {} THEN Zero
    ELSE LET i == CHOOSE j \in S : \A k \in S : j >= k
         IN  Add(SumAt(S \ {i}, field), Float(heap[input[i]][field]))

\* C5 as stated: when at least one value coerces, the result is the least
\* and the greatest of the coerced values and their sum over their count,
\* whatever the order of the records, and min <= average <= max.
C5_MinMaxMean ==
    \A c \in Callers :
        (StatsDone(c) /\ Coercing(call[c].field) # {}) =>
            LET S == Coercing(call[c].field)
                V == {Float(heap[input[i]][call[c].field]) : i \in S}
                r == call[c].res
            IN  /\ r[1] \in V /\ \A v \in V : Leq(r[1], v)
                /\ r[2] \in V /\ \A v \in V : Leq(v, r[2])
                /\ r[3] = DivInt(SumAt(S, call[c].field), Cardinality(S))
                /\ Leq(r[1], r[3]) /\ Leq(r[3], r[2])

\* three records of the same digits have given an average above the maximum
C5_RoundedAboveMax ==
    /\ StatsDone(1) /\ call[1].field = AMOUNT
    /\ InputRecords = <<[k \in {AMOUNT} |-> BIG], [k \in {AMOUNT} |-> BIG],
                        [k \in {AMOUNT} |-> BIG]>>
    /\ call[1].res[1] = Float(BIG) /\ call[1].res[2] = Float(BIG)
    /\ Lt(call[1].res[2], call[1].res[3])

\* the values 10, abc, 20 have given (10, 20, 15)
C5_Example ==
    /\ StatsDone(1) /\ call[1].field = AMOUNT
    /\ InputRecords = <<[k \in {AMOUNT} |-> T10], [k \in {AMOUNT} |-> ABC],
                        [k \in {AMOUNT} |-> T20]>>
    /\ call[1].res = <<Float(T10), Float(T20), Float(<<"1", "5">>)>>

\* s is t with some members left out, order kept
RECURSIVE IsSubsequence(_, _)
IsSubsequence(s, t) ==
    IF s = <<>> THEN TRUE
    ELSE IF t = <<>> THEN FALSE
    ELSE IF Head(s) = Head(t) THEN IsSubsequence(Tail(s), Tail(t))
    ELSE IsSubsequence(s, Tail(t))

\* C6: filter_by_category returns, in their original order, exactly the
\* records whose value at the field is the same text as the value asked for;
\* a record without the field matches no text, not even the empty one; a
\* value no record holds gives the empty Dataset.
C6_ExactMatchesInOrder ==
    \A c \in Callers :
        FilterDone(c) =>
            LET f == call[c].field
                v == call[c].value
                hit == {i \in 1..Len(input) :
                            f \in DOMAIN heap[input[i]] /\ heap[input[i]][f] = v}
                r == call[c].res
            IN  /\ Len(r) = Cardinality(hit)
                /\ IsSubsequence(r, input)
                /\ \A k \in 1..Len(r) :
                      \E i \in hit : r[k] = input[i] /\ Cardinality({j \in hit : j <= i}) = k
                /\ (hit = {} => r = <<>>)

\* of abc, a record without the field, and abc, the first and third record
\* were returned for abc
C6_Witness ==
    /\ FilterDone(1) /\ call[1].field = AMOUNT /\ call[1].value = ABC
    /\ InputRecords = <<[k \in {AMOUNT} |-> ABC], EmptyRecord, [k \in {AMOUNT} |-> ABC]>>
    /\ call[1].res = <<1, 3>>

(***************************************************************************)
(* A caller that changes what filter_by_category returned                  *)
(***************************************************************************)
\* result[0][field] = MutText, on the result of a completed filter
MutateResultRecord(c) ==
    /\ FilterDone(c) /\ call[c].res # <<>>
    /\ LET id == call[c].res[1]
           f == call[c].field
       IN  heap' = [heap EXCEPT ![id] =
                        [k \in (DOMAIN @) \cup {f} |-> IF k = f THEN MutText ELSE @[k]]]
    /\ UNCHANGED <<input, call, cliVars, fibVars>>

\* result.pop(0), on the result of a completed filter
MutateResultList(c) ==
    /\ FilterDone(c) /\ call[c].res # <<>>
    /\ call' = [call EXCEPT ![c].res = Tail(@)]
    /\ UNCHANGED <<heap, input, cliVars, fibVars>>

NextAlias ==
    \/ \E c \in Callers : BeginStats(c)
    \/ \E c \in Callers : StatsLoop(c)
    \/ \E c \in Callers : BeginFilter(c)
    \/ \E c \in Callers : FilterLoop(c)
    \/ \E c \in Callers : MutateResultRecord(c)
    \/ \E c \in Callers : MutateResultList(c)

SpecAlias == InitAggOne /\ [][NextAlias]_vars

\* C7 as stated: no step changes the input Dataset or a record of it: not a
\* call of calculate_statistics or filter_by_category, and not a later change
\* made through the Dataset filter_by_category returned.
C7_InputNeverChanges ==
    [][/\ input' = input
       /\ \A i \in 1..Len(input) : heap'[input[i]] = heap[input[i]]]_vars

(***************************************************************************)
(* Concurrent callers of the three operations                              *)
(***************************************************************************)
\* the callers inside read_data_file
LoadsInFlight == {c \in Callers : call[c].op = "load" /\ call[c].st # "done"}

\* line 11: a call of read_data_file(filepath); standard output is kept to
\* MaxPrinted lines, a load starts while every load in flight can still print
BeginLoad(c) ==
    /\ Ready(c)
    /\ Len(out) + Cardinality(LoadsInFlight) < MaxPrinted
    /\ call' = [call EXCEPT ![c] = [Started(c, "load", <<>>, <<>>) EXCEPT !.st = "open"]]
    /\ UNCHANGED <<heap, input, cliVars, fibVars>>

\* lines 18 and 34: the return through the end of the with block
LeaveWith(frame) ==
    IF WithExit(fs) = "returned" THEN Finished(frame, frame.acc)
    ELSE [frame EXCEPT !.st = WithExit(fs)]

\* line 15
LoadOpen(c) ==
    /\ call[c].op = "load" /\ call[c].st = "open"
    /\ call' = [call EXCEPT ![c].st =
                    CASE fs = "missing" -> Handler("FileNotFoundError")
                      [] fs = "denied" -> Handler("PermissionError")
                      [] OTHER -> "readlines"]
    /\ UNCHANGED <<heap, input, cliVars, fibVars>>

\* lines 16-20
LoadReadAll(c) ==
    /\ call[c].op = "load" /\ call[c].st = "readlines"
    /\ LET lns == ReadLines(content)
       IN  IF fs = "readfail"
           THEN call' = [call EXCEPT ![c].st = Handler("OSError")]
           ELSE IF lns = <<>>
           THEN call' = [call EXCEPT ![c] = LeaveWith(@)]
           ELSE call' = [call EXCEPT ![c].lines = lns,
                                     ![c].headers = SplitStrip(lns[1]),
                                     ![c].i = 2,
                                     ![c].st = "loop"]
    /\ UNCHANGED <<heap, input, cliVars, fibVars>>

\* lines 22-26, one line; line 34 when the lines are exhausted
LoadLoop(c) ==
    /\ call[c].op = "load" /\ call[c].st = "loop"
    /\ IF call[c].i <= Len(call[c].lines)
       THEN call' = [call EXCEPT ![c].acc =
                         IF KeepsLine(call[c].lines[call[c].i])
                         THEN Append(@, RecordOf(call[c].headers, call[c].lines[call[c].i]))
                         ELSE @,
                                 ![c].i = @ + 1]
       ELSE call' = [call EXCEPT ![c] = LeaveWith(@)]
    /\ UNCHANGED <<heap, input, cliVars, fibVars>>

\* lines 27-32: the diagnostic is printed and the call returns []
LoadExcept(c) ==
    /\ call[c].op = "load" /\ call[c].st \in {"except_nf", "except_any"}
    /\ out' = Append(out, IF call[c].st = "except_nf" THEN <<"not_found">>
                                                       ELSE <<"read_error">>)
    /\ call' = [call EXCEPT ![c] = Finished(@, <<>>)]
    /\ UNCHANGED <<heap, input, hasArg, fs, content, pc, lines, headers, idx,
                   records, data, exit, fibVars>>

NextConc ==
    \/ \E c \in Callers : BeginStats(c)
    \/ \E c \in Callers : StatsLoop(c)
    \/ \E c \in Callers : BeginFilter(c)
    \/ \E c \in Callers : FilterLoop(c)
    \/ \E c \in Callers : BeginLoad(c)
    \/ \E c \in Callers : LoadOpen(c)
    \/ \E c \in Callers : LoadReadAll(c)
    \/ \E c \in Callers : LoadLoop(c)
    \/ \E c \in Callers : LoadExcept(c)

\* two callers, one shared Dataset of at most MaxSharedRecords records and
\* one file
InitConc ==
    /\ InitAgg(ConcRecords, MaxSharedRecords, {1, 2})
    /\ hasArg = FALSE /\ pc = "off"
    /\ \/ fs = "ok" /\ content \in ConcFiles
       \/ fs \in {"denied", "readfail", "closefail"} /\ content = <<"amount", NL, "1">>
       \/ fs = "missing" /\ content = <<>>
    /\ lines = <<>> /\ headers = <<>> /\ idx = 0
    /\ records = <<>> /\ data = <<>> /\ out = <<>>
    /\ exit = "none"
    /\ IdleFib

SpecConc == InitConc /\ [][NextConc]_vars

\* what a call returns when it runs alone
RunAlone(frame) ==
    CASE frame.op = "stats" -> CalculateStatistics(input, heap, frame.field)
      [] frame.op = "filter" -> FilterByCategory(input, heap, frame.field, frame.value)
      [] frame.op = "load" -> ReadDataFile(fs, content)

\* C9: however the calls of concurrent callers interleave over the same file
\* and the same Dataset, every completed call has returned what it returns
\* when run alone, a repeated call included.
C9_SameAsAlone ==
    \A c \in Callers : call[c].st = "done" => call[c].res = RunAlone(call[c])

\* caller 2 has completed a load while caller 1 is in the middle of a
\* calculate_statistics that has already collected a value
C9_Witness ==
    /\ call[1].op = "stats" /\ call[1].st = "loop" /\ call[1].i = 2
    /\ call[1].acc = <<Float(T10)>>
    /\ call[2].op = "load" /\ call[2].st = "done" /\ Len(call[2].res) = 1

====
